---------------------------- MODULE Spec2Model ----------------------------
(***************************************************************************)
(* Model of pyjarowinkler/distance.py: the Jaro and Jaro-Winkler           *)
(* similarity of two strings.                                              *)
(*                                                                         *)
(* A Python str is a sequence of one-character strings.  A Python value is *)
(* a record [type, val]: type is the value's class name ("str",            *)
(* "NoneType", "list") and val its content.  A float is an exact rational  *)
(* <<numerator, denominator>> in lowest terms with a positive denominator; *)
(* a division by zero is undefined and stops the evaluation, as Python's   *)
(* ZeroDivisionError does.  round() is taken of the exact value, so the    *)
(* model and a binary float can differ where the exact value lies halfway  *)
(* between two integers; no property below depends on such a tie.          *)
(***************************************************************************)
EXTENDS Integers, Sequences, FiniteSets

VARIABLES
    pc,                 \* "ready" before the call, "done" after it
    op,                 \* the function that was called
    first, second,      \* the two positional arguments (Python values)
    winkler, winkler_ajustment, scaling,   \* the keyword arguments
    ret                 \* the outcome of the call: a return value or a raised exception

vars == <<pc, op, first, second, winkler, winkler_ajustment, scaling, ret>>

---------------------------------------------------------------------------
(* Bounds of the model *)

\* longest string over LowerAlphabet
MaxLen == 5
\* longest string over MixedAlphabet
MaxLenMixed == 3
\* longest candidate list handed to get_jaro_distance_array
MaxCandidates == 3

---------------------------------------------------------------------------
(* Python values *)

PyStr(s) == [type |-> "str", val |-> s]
PyNone == [type |-> "NoneType", val |-> <<>>]
PyList(l) == [type |-> "list", val |-> l]

\* Python truthiness: None, "" and [] are falsy
Truthy(x) == x.type # "NoneType" /\ Len(x.val) > 0

Min(a, b) == IF a <= b THEN a ELSE b
Max(a, b) == IF a >= b THEN a ELSE b

---------------------------------------------------------------------------
(* Floats as exact rationals *)

RECURSIVE GCD(_, _)
GCD(a, b) == IF b = 0 THEN a ELSE GCD(b, a % b)

Abs(n) == IF n < 0 THEN -n ELSE n

Rat(n, d) ==
    LET g == GCD(Abs(n), Abs(d))
        s == IF d < 0 THEN -1 ELSE 1
    IN  <<(s * n) \div g, (s * d) \div g>>

RatAdd(x, y) == Rat(x[1] * y[2] + y[1] * x[2], x[2] * y[2])
RatSub(x, y) == Rat(x[1] * y[2] - y[1] * x[2], x[2] * y[2])
RatMul(x, y) == Rat(x[1] * y[1], x[2] * y[2])
RatDiv(x, y) == Rat(x[1] * y[2], x[2] * y[1])
RatLeq(x, y) == x[1] * y[2] <= y[1] * x[2]
RatInt(n) == <<n, 1>>

Zero == RatInt(0)
One == RatInt(1)

\* Python 3 round(x) with one argument: the nearest integer, ties to the even one
Round(x) ==
    LET fl == x[1] \div x[2]
        twice == 2 * (x[1] % x[2])
    IN  IF twice < x[2] THEN fl
        ELSE IF twice > x[2] THEN fl + 1
        ELSE IF fl % 2 = 0 THEN fl ELSE fl + 1

---------------------------------------------------------------------------
(* str.lower() *)

UpperCase == <<"A", "B", "C", "D", "E", "F", "G", "H", "I", "J", "K", "L", "M",
               "N", "O", "P", "Q", "R", "S", "T", "U", "V", "W", "X", "Y", "Z">>
LowerCase == <<"a", "b", "c", "d", "e", "f", "g", "h", "i", "j", "k", "l", "m",
               "n", "o", "p", "q", "r", "s", "t", "u", "v", "w", "x", "y", "z">>

LowerChar(c) ==
    IF \E k \in 1..Len(UpperCase) : UpperCase[k] = c
    THEN LowerCase[CHOOSE k \in 1..Len(UpperCase) : UpperCase[k] = c]
    ELSE c

Lower(s) == [k \in 1..Len(s) |-> LowerChar(s[k])]

---------------------------------------------------------------------------
(* distance.py *)

\* Mutant: the mismatched positions are not halved
_transpositions_not_halved(f, s) ==
    Cardinality({k \in 1..Min(Len(f), Len(s)) : f[k] # s[k]})

\* _transpositions(first, second): zip stops at the shorter argument
_transpositions(f, s) ==
    Cardinality({k \in 1..Min(Len(f), Len(s)) : f[k] # s[k]}) \div 2

\* the character the code writes over a consumed position of `second`
Sentinel == "*"

\* second.index(l), as a 1-based position
Index(s, l) == CHOOSE k \in 1..Len(s) : s[k] = l /\ \A j \in 1..(k - 1) : s[j] # l

\* Mutant: the window ends one position early (i + limit instead of i + limit + 1)
RECURSIVE MatchLoop_short_window(_, _, _, _, _)
MatchLoop_short_window(f, s, i, limit, common) ==
    IF i >= Len(f) THEN common
    ELSE LET l == f[i + 1]
             left == Max(0, i - limit)
             right == Min(i + limit, Len(s))
         IN  IF \E j \in left..(right - 1) : s[j + 1] = l
             THEN MatchLoop_short_window(f, [s EXCEPT ![Index(s, l)] = Sentinel], i + 1,
                                         limit, Append(common, l))
             ELSE MatchLoop_short_window(f, s, i + 1, limit, common)

\* One pass of the loop of _get_matching_characters, at the 0-based position i
RECURSIVE MatchLoop(_, _, _, _, _)
MatchLoop(f, s, i, limit, common) ==
    IF i >= Len(f) THEN common
    ELSE LET l == f[i + 1]
             left == Max(0, i - limit)
             right == Min(i + limit + 1, Len(s))
         IN  IF \E j \in left..(right - 1) : s[j + 1] = l
             THEN MatchLoop(f, [s EXCEPT ![Index(s, l)] = Sentinel], i + 1, limit,
                            Append(common, l))
             ELSE MatchLoop(f, s, i + 1, limit, common)

\* Mutant: the window is sized by the longer string
_get_matching_characters_max_limit(f, s) ==
    MatchLoop(f, s, 0, Max(Len(f), Len(s)) \div 2, <<>>)

\* Mutant: the window is sized by the first argument alone
_get_matching_characters_first_limit(f, s) ==
    MatchLoop(f, s, 0, Len(f) \div 2, <<>>)

_get_matching_characters(f, s) ==
    MatchLoop(f, s, 0, Min(Len(f), Len(s)) \div 2, <<>>)

\* The two directional match sequences of _score
Shorter(f, s) == IF Len(f) > Len(s) THEN Lower(s) ELSE Lower(f)
Longer(f, s) == IF Len(f) > Len(s) THEN Lower(f) ELSE Lower(s)
M1(f, s) == _get_matching_characters(Shorter(f, s), Longer(f, s))
M2(f, s) == _get_matching_characters(Longer(f, s), Shorter(f, s))

\* The three-term formula of _score
JaroFormula(shorter, longer, m1, m2) ==
    RatDiv(RatAdd(RatAdd(Rat(Len(m1), Len(shorter)), Rat(Len(m2), Len(longer))),
                  Rat(Len(m1) - _transpositions(m1, m2), Len(m1))),
           RatInt(3))

_score(f, s) ==
    LET shorter == Shorter(f, s)
        longer == Longer(f, s)
        m1 == _get_matching_characters(shorter, longer)
        m2 == _get_matching_characters(longer, shorter)
    IN  IF Len(m1) = 0 \/ Len(m2) = 0 THEN Zero
        ELSE JaroFormula(shorter, longer, m1, m2)

_get_diff_index(f, s) ==
    IF f = s THEN -1
    ELSE IF Len(f) = 0 \/ Len(s) = 0 THEN 0
    ELSE LET max_len == Min(Len(f), Len(s))
             diff == {i \in 0..(max_len - 1) : f[i + 1] # s[i + 1]}
         IN  IF diff # {} THEN CHOOSE i \in diff : \A j \in diff : i <= j
             ELSE max_len

_get_prefix(f, s) ==
    IF Len(f) = 0 \/ Len(s) = 0 THEN <<>>
    ELSE LET index == _get_diff_index(f, s)
         IN  IF index = -1 THEN f
             ELSE IF index = 0 THEN <<>>
             ELSE SubSeq(f, 1, index)

\* The outcome of a call: a returned value or a raised exception
Returned(v) == [raised |-> FALSE, value |-> v]
JaroDistanceException(x, y) ==
    [raised |-> TRUE, value |-> <<"JaroDistanceException", x.type, y.type>>]

\* Mutant: the common prefix is not capped at four characters
get_jaro_distance_uncapped(x, y, w, wa, sc) ==
    IF ~Truthy(x) \/ ~Truthy(y) THEN JaroDistanceException(x, y)
    ELSE LET jaro == _score(x.val, y.val)
             cl == Len(_get_prefix(x.val, y.val))
         IN  IF w /\ wa
             THEN Returned(Rat(Round(RatMul(
                      RatAdd(jaro, RatMul(RatMul(sc, RatInt(cl)), RatSub(One, jaro))),
                      RatInt(100))), 100))
             ELSE Returned(jaro)

\* Mutant: the prefix bonus is subtracted
get_jaro_distance_minus(x, y, w, wa, sc) ==
    IF ~Truthy(x) \/ ~Truthy(y) THEN JaroDistanceException(x, y)
    ELSE LET jaro == _score(x.val, y.val)
             cl == Min(Len(_get_prefix(x.val, y.val)), 4)
         IN  IF w /\ wa
             THEN Returned(Rat(Round(RatMul(
                      RatSub(jaro, RatMul(RatMul(sc, RatInt(cl)), RatSub(One, jaro))),
                      RatInt(100))), 100))
             ELSE Returned(jaro)

\* Mutant: only the first argument is validated
get_jaro_distance_first_only(x, y, w, wa, sc) ==
    IF ~Truthy(x) THEN JaroDistanceException(x, y)
    ELSE LET jaro == _score(x.val, y.val)
             cl == Min(Len(_get_prefix(x.val, y.val)), 4)
         IN  IF w /\ wa
             THEN Returned(Rat(Round(RatMul(
                      RatAdd(jaro, RatMul(RatMul(sc, RatInt(cl)), RatSub(One, jaro))),
                      RatInt(100))), 100))
             ELSE Returned(jaro)

get_jaro_distance(x, y, w, wa, sc) ==
    IF ~Truthy(x) \/ ~Truthy(y) THEN JaroDistanceException(x, y)
    ELSE LET jaro == _score(x.val, y.val)
             cl == Min(Len(_get_prefix(x.val, y.val)), 4)
         IN  IF w /\ wa
             THEN Returned(Rat(Round(RatMul(
                      RatAdd(jaro, RatMul(RatMul(sc, RatInt(cl)), RatSub(One, jaro))),
                      RatInt(100))), 100))
             ELSE Returned(jaro)

\* Mutant: each result is put in front of the earlier ones
RECURSIVE Comprehension_prepend(_, _, _, _, _, _)
Comprehension_prepend(x, l, w, wa, sc, acc) ==
    IF l = <<>> THEN Returned(acc)
    ELSE LET r == get_jaro_distance(x, Head(l), w, wa, sc)
         IN  IF r.raised THEN r
             ELSE Comprehension_prepend(x, Tail(l), w, wa, sc, <<r.value>> \o acc)

\* The list comprehension of get_jaro_distance_array: the first exception ends it
RECURSIVE Comprehension(_, _, _, _, _, _)
Comprehension(x, l, w, wa, sc, acc) ==
    IF l = <<>> THEN Returned(acc)
    ELSE LET r == get_jaro_distance(x, Head(l), w, wa, sc)
         IN  IF r.raised THEN r
             ELSE Comprehension(x, Tail(l), w, wa, sc, Append(acc, r.value))

get_jaro_distance_array(x, y, w, wa, sc) ==
    Comprehension(x, IF y.type # "list" THEN <<y>> ELSE y.val, w, wa, sc, <<>>)

---------------------------------------------------------------------------
(* Inputs *)

LowerAlphabet == {"a", "b"}
MixedAlphabet == {"a", "A", "*"}

\* every string over alphabet A of length 0..n
StringsOver(A, n) == UNION {[1..k -> A] : k \in 0..n}



\* the strings of the reference scenarios
MARTHA == <<"M", "A", "R", "T", "H", "A">>
MARHTA == <<"M", "A", "R", "H", "T", "A">>
ReferenceWords == {<<"c", "a", "t">>, <<"b", "a", "t">>, <<"x", "y", "z">>,
                   <<"a", "b", "c">>}

\* two strings that share a prefix longer than the four characters Winkler counts
AAAAAA == <<"a", "a", "a", "a", "a", "a">>
AAAAAB == <<"a", "a", "a", "a", "a", "b">>

\* two strings of 17 characters that differ in the second character only
SEVENTEEN_A == [k \in 1..17 |-> "a"]
SEVENTEEN_B == [k \in 1..17 |-> IF k = 2 THEN "b" ELSE "a"]

\* the argument pairs of a single-pair call
Pairs ==
    (StringsOver(LowerAlphabet, MaxLen) \X StringsOver(LowerAlphabet, MaxLen))
    \cup (StringsOver(MixedAlphabet, MaxLenMixed) \X StringsOver(MixedAlphabet, MaxLenMixed))
    \cup (ReferenceWords \X ReferenceWords)
    \cup {<<MARTHA, MARHTA>>, <<MARHTA, MARTHA>>}
    \cup {<<AAAAAA, AAAAAB>>, <<AAAAAB, AAAAAA>>}
    \cup {<<SEVENTEEN_A, SEVENTEEN_B>>, <<SEVENTEEN_B, SEVENTEEN_A>>}

Arguments ==
    {<<PyStr(p[1]), PyStr(p[2])>> : p \in Pairs}
    \cup {<<PyNone, PyStr(s)>> : s \in StringsOver(LowerAlphabet, 1)}
    \cup {<<PyStr(s), PyNone>> : s \in StringsOver(LowerAlphabet, 1)}
    \cup {<<PyNone, PyNone>>}

Scalings == {Rat(0, 1), Rat(1, 10), Rat(1, 4)}

NoResult == [raised |-> FALSE, value |-> <<>>]

Init ==
    /\ pc = "ready"
    /\ op = "none"
    /\ \E a \in Arguments : first = a[1] /\ second = a[2]
    /\ winkler = TRUE
    /\ winkler_ajustment = TRUE
    /\ scaling = Rat(1, 10)
    /\ ret = NoResult

\* get_jaro_distance(first, second, winkler, winkler_ajustment, scaling)
CallGetJaroDistance ==
    /\ pc = "ready"
    /\ \E w \in BOOLEAN, wa \in BOOLEAN, sc \in Scalings :
        /\ winkler' = w
        /\ winkler_ajustment' = wa
        /\ scaling' = sc
        /\ ret' = get_jaro_distance(first, second, w, wa, sc)
    /\ op' = "get_jaro_distance"
    /\ pc' = "done"
    /\ UNCHANGED <<first, second>>

\* _score(first, second), which get_jaro_distance calls on two non-empty strings
CallScore ==
    /\ pc = "ready"
    /\ Truthy(first) /\ Truthy(second)
    /\ ret' = Returned(_score(first.val, second.val))
    /\ op' = "_score"
    /\ pc' = "done"
    /\ UNCHANGED <<first, second, winkler, winkler_ajustment, scaling>>

\* _get_matching_characters(first, second), which _score calls on lowered strings
CallGetMatchingCharacters ==
    /\ pc = "ready"
    /\ Truthy(first) /\ Truthy(second)
    /\ first.val = Lower(first.val) /\ second.val = Lower(second.val)
    /\ ret' = Returned(_get_matching_characters(first.val, second.val))
    /\ op' = "_get_matching_characters"
    /\ pc' = "done"
    /\ UNCHANGED <<first, second, winkler, winkler_ajustment, scaling>>

Next == CallGetJaroDistance \/ CallScore \/ CallGetMatchingCharacters

Spec == Init /\ [][Next]_vars

\* The same calls on strings of lower-case letters only
IsLowerLetters(x) ==
    x.type = "str" /\ \A k \in 1..Len(x.val) : x.val[k] \in LowerAlphabet

InitLower == Init /\ IsLowerLetters(first) /\ IsLowerLetters(second)

SpecLower == InitLower /\ [][Next]_vars

\* The arguments of a batch call: a word, and a list of candidates or one candidate
BatchValues ==
    {PyStr(<<"c", "a", "t">>), PyStr(<<"b", "a", "t">>), PyStr(<<"x", "y", "z">>),
     PyStr(<<>>), PyNone}

CandidateLists == UNION {[1..k -> BatchValues] : k \in 0..MaxCandidates}

InitArray ==
    /\ pc = "ready"
    /\ op = "none"
    /\ first \in BatchValues
    /\ second \in {PyList(l) : l \in CandidateLists} \cup BatchValues
    /\ winkler = TRUE
    /\ winkler_ajustment = TRUE
    /\ scaling = Rat(1, 10)
    /\ ret = NoResult

\* get_jaro_distance_array(first, second, winkler, winkler_ajustment, scaling)
CallGetJaroDistanceArray ==
    /\ pc = "ready"
    /\ \E w \in BOOLEAN, wa \in BOOLEAN, sc \in Scalings :
        /\ winkler' = w
        /\ winkler_ajustment' = wa
        /\ scaling' = sc
        /\ ret' = get_jaro_distance_array(first, second, w, wa, sc)
    /\ op' = "get_jaro_distance_array"
    /\ pc' = "done"
    /\ UNCHANGED <<first, second>>

NextArray == CallGetJaroDistanceArray

SpecArray == InitArray /\ [][NextArray]_vars

---------------------------------------------------------------------------
(* Properties *)

Done(f) == pc = "done" /\ op = f
Winklered == winkler /\ winkler_ajustment

\* x rounded to two decimals, as get_jaro_distance rounds its result
Round2(x) == Rat(Round(RatMul(x, RatInt(100))), 100)

\* no character of f equals a character of s at most `limit` positions away
NoCommonInWindow(f, s) ==
    LET limit == Min(Len(f), Len(s)) \div 2
    IN  \A i \in 1..Len(f), j \in 1..Len(s) : Abs(i - j) <= limit => f[i] # s[j]

\* C1: raw Jaro is symmetric: _score(a, b) equals _score(b, a) for all non-empty
\* strings a and b.
C1_ScoreSymmetric ==
    Done("_score") => ret.value = _score(second.val, first.val)

\* C2: for all non-empty strings, both flags and every scaling factor in [0, 0.25],
\* the value get_jaro_distance returns lies in [0, 1], and so does the raw score.
C2_Range ==
    (pc = "done" /\ op \in {"get_jaro_distance", "_score"} /\ ~ret.raised)
        => RatLeq(Zero, ret.value) /\ RatLeq(ret.value, One)

\* the largest scaling factor meets a common prefix longer than four characters
C2_Witness ==
    /\ Done("get_jaro_distance") /\ ~ret.raised /\ Winklered
    /\ scaling = Rat(1, 4)
    /\ first # second
    /\ Len(_get_prefix(first.val, second.val)) > 4
    /\ RatLeq(ret.value, One)

\* C3: get_jaro_distance(s, s) returns exactly 1.0 for every non-empty string s,
\* with the Winkler adjustment on or off.
C3_Identity ==
    (Done("get_jaro_distance") /\ Truthy(first) /\ first = second)
        => ret = Returned(One)

\* a string with a repeated character compared with itself, adjustment off
C3_Witness ==
    /\ Done("get_jaro_distance") /\ ~Winklered
    /\ first = second
    /\ Len(first.val) >= 3 /\ first.val[1] = first.val[3]
    /\ ret = Returned(One)

\* the case of C4: a Winkler-adjusted result for a nonzero raw score and a
\* non-empty common prefix
C4_Case ==
    /\ Done("get_jaro_distance") /\ ~ret.raised /\ Winklered
    /\ _score(first.val, second.val) # Zero
    /\ _get_prefix(first.val, second.val) # <<>>

\* C4 (as claimed): the Winkler-adjusted value returned, after rounding to two
\* decimals, is greater than or equal to the raw Jaro score.
C4_AdjustedAtLeastRaw ==
    C4_Case => RatLeq(_score(first.val, second.val), ret.value)

\* C4 (amended): the Winkler-adjusted value returned is greater than or equal to
\* the raw Jaro score rounded to two decimals.
C4_AdjustedAtLeastRoundedRaw ==
    C4_Case => RatLeq(Round2(_score(first.val, second.val)), ret.value)

\* rounding took the returned value below the raw score, at the default scaling
C4_Witness ==
    /\ C4_Case
    /\ scaling = Rat(1, 10)
    /\ ~RatLeq(_score(first.val, second.val), ret.value)
    /\ RatLeq(Round2(_score(first.val, second.val)), ret.value)

\* C5: get_jaro_distance raises JaroDistanceException exactly when an argument is
\* empty or None, in either position, and then returns no score.
C5_InvalidInput ==
    Done("get_jaro_distance") =>
        /\ ret.raised <=> (~Truthy(first) \/ ~Truthy(second))
        /\ ret.raised => ret.value = <<"JaroDistanceException", first.type, second.type>>

\* None in the second position
C5_Witness ==
    /\ Done("get_jaro_distance")
    /\ Truthy(first) /\ second = PyNone
    /\ ret.raised

\* the candidates get_jaro_distance_array walks through
Candidates == IF second.type = "list" THEN second.val ELSE <<second>>
One_by_one(i) ==
    get_jaro_distance(first, Candidates[i], winkler, winkler_ajustment, scaling)

\* C6: get_jaro_distance_array returns, in input order, get_jaro_distance of the
\* word and each candidate; one candidate that is no list counts as a list of one;
\* and an empty or absent candidate fails the whole call with the error of the
\* first invalid pair.
C6_Batch ==
    Done("get_jaro_distance_array") =>
        LET bad == {i \in 1..Len(Candidates) : One_by_one(i).raised}
        IN  IF bad = {}
            THEN /\ ~ret.raised
                 /\ Len(ret.value) = Len(Candidates)
                 /\ \A i \in 1..Len(Candidates) : ret.value[i] = One_by_one(i).value
            ELSE \E i \in bad : (\A j \in bad : i <= j) /\ ret = One_by_one(i)

\* three candidates with three different scores
C6_Witness ==
    /\ Done("get_jaro_distance_array") /\ ~ret.raised
    /\ second.type = "list" /\ Len(second.val) = 3
    /\ ret.value[1] # ret.value[2]
    /\ ret.value[2] # ret.value[3]
    /\ ret.value[1] # ret.value[3]

\* C7: when no character of one string occurs, case-insensitively, inside its
\* window in the other, both match sequences are empty and _score returns 0.0;
\* get_jaro_distance returns 0.0 as well when the strings share no prefix.
C7_NoMatch ==
    (/\ pc = "done" /\ op \in {"get_jaro_distance", "_score"} /\ ~ret.raised
     /\ NoCommonInWindow(Lower(first.val), Lower(second.val))
     /\ op = "get_jaro_distance" => _get_prefix(first.val, second.val) = <<>>)
        => /\ Len(M1(first.val, second.val)) = 0 \/ Len(M2(first.val, second.val)) = 0
           /\ ret.value = Zero

\* get_jaro_distance("abc", "xyz")
C7_Witness ==
    /\ Done("get_jaro_distance") /\ Winklered
    /\ first = PyStr(<<"a", "b", "c">>) /\ second = PyStr(<<"x", "y", "z">>)
    /\ ret = Returned(Zero)

\* C8: get_jaro_distance("MARTHA", "MARHTA") with the default options returns 0.96:
\* six matches each way, two mismatched positions, one transposition, raw Jaro
\* 17/18, a common prefix of three characters.
C8_Martha ==
    (/\ Done("get_jaro_distance") /\ Winklered /\ scaling = Rat(1, 10)
     /\ first = PyStr(MARTHA) /\ second = PyStr(MARHTA))
        => LET m1 == M1(MARTHA, MARHTA)
               m2 == M2(MARTHA, MARHTA)
           IN  /\ Len(m1) = 6 /\ Len(m2) = 6
               /\ Cardinality({k \in 1..6 : m1[k] # m2[k]}) = 2
               /\ _transpositions(m1, m2) = 1
               /\ _score(MARTHA, MARHTA) = Rat(17, 18)
               /\ Len(_get_prefix(MARTHA, MARHTA)) = 3
               /\ ret = Returned(Rat(96, 100))

C8_Witness ==
    /\ Done("get_jaro_distance") /\ Winklered /\ scaling = Rat(1, 10)
    /\ first = PyStr(MARTHA) /\ second = PyStr(MARHTA)
    /\ ret.value = Rat(96, 100)

\* C9: a consumed position of Y is never matched again, so
\* _get_matching_characters(X, Y) records at most len(Y) matches and at most as
\* many as Y has positions that are not the sentinel character.
C9_MatchesBounded ==
    Done("_get_matching_characters") =>
        /\ Len(ret.value) <= Len(second.val)
        /\ Len(ret.value) <= Cardinality({k \in 1..Len(second.val) : second.val[k] # Sentinel})

\* C10: the two directional match sequences are empty together.
C10_EmptyTogether ==
    /\ Done("_get_matching_characters") =>
        (Len(ret.value) = 0 <=> Len(_get_matching_characters(second.val, first.val)) = 0)
    /\ Done("_score") =>
        (Len(M1(first.val, second.val)) = 0 <=> Len(M2(first.val, second.val)) = 0)

\* the strings share a character, but outside the window: no match either way
C10_Witness ==
    /\ Done("_get_matching_characters")
    /\ Len(ret.value) = 0
    /\ Len(first.val) # Len(second.val)
    /\ IsLowerLetters(first) /\ IsLowerLetters(second)
    /\ \E i \in 1..Len(first.val), j \in 1..Len(second.val) : first.val[i] = second.val[j]

=============================================================================
